---- MODULE Spec2Model ----
(***************************************************************************)
(* Model of chrome-mv3-uncached-favicons.                                  *)
(*                                                                         *)
(* Two source files implement the same program in two revisions:          *)
(*   "popup"  : src/popup.js           (makeIconLoader / initIcon)         *)
(*   "tester" : src/unnamed/part_000   (makeIconTester / testIcon)         *)
(* The variable `variant` selects the revision; every operator that        *)
(* differs between the two files branches on it.                           *)
(***************************************************************************)
EXTENDS Integers, Sequences, FiniteSets, TLC

(***************************************************************************)
(* Bounds of the model.                                                    *)
(***************************************************************************)
\* largest number of nodes of an enumerated bookmark tree
MaxNodes == 4
\* largest enumerated limit argument of getDomains
MaxLimit == 2
\* width in pixels of the offscreen canvas and of every bitmap (the program's
\* default size is 16); one row of pixels is modelled
Size == 2
\* largest number of testIcon / initIcon calls a free caller makes
MaxTests == 2
\* largest number of tabs opened (by fetchFavIcon or by a modifier-click)
MaxTabs == 2

(***************************************************************************)
(* Bookmark trees (chrome.bookmarks.BookmarkTreeNode).                     *)
(* A bookmark is [url |-> u]; a folder is [children |-> <<...>>].          *)
(* A URL string is modelled by its parts <<scheme, host, path>>; the empty *)
(* string is <<>>.                                                         *)
(***************************************************************************)
UrlStrings ==
  { <<"https", "a.com", "/">>, <<"https", "a.com", "/page2">>,
    <<"http", "b.com", "/">>, <<"https", "c.com", "/">>,
    <<"https", "d.com", "/">> }

\* new URL(str): the parsed fields the program reads
URLParse(str) ==
  [protocol |-> str[1] \o ":", hostname |-> str[2], pathname |-> str[3]]

Leaf(u) == [url |-> u]
Folder(cs) == [children |-> cs]

\* bookmark.children is truthy (an array, possibly empty)
IsFolderEmptyFalsy(bookmark) ==
  "children" \in DOMAIN bookmark /\ Len(bookmark.children) > 0
IsFolder(bookmark) == "children" \in DOMAIN bookmark

\* bookmark.url is truthy (present and not the empty string)
HasUrl(bookmark) == "url" \in DOMAIN bookmark /\ bookmark.url # <<>>

\* url.protocol === 'https:'
IsHttpsAny(url) == TRUE
IsHttps(url) == url.protocol = "https:"

RECURSIVE SumCounts(_, _)
RECURSIVE countBookmarks(_)
\* the for-of loop of countBookmarks: count += countBookmarks(child)
SumCounts(children, i) ==
  IF i > Len(children) THEN 0
  ELSE countBookmarks(children[i]) + SumCounts(children, i + 1)

countBookmarks(bookmark) ==
  IF IsFolder(bookmark) THEN SumCounts(bookmark.children, 1)
  ELSE 0 + 1

\* Set.prototype.add on an insertion-ordered Set, held as a duplicate-free sequence
SetAddFront(s, x) == IF \E i \in 1..Len(s) : s[i] = x THEN s ELSE << x >> \o s
SetAdd(s, x) == IF \E i \in 1..Len(s) : s[i] = x THEN s ELSE Append(s, x)

RECURSIVE getDomainsInto(_, _, _)
RECURSIVE getDomainsLoop(_, _, _, _)
\* one call of getDomains on the shared accumulator _domains; the value is the
\* accumulator after the call
getDomainsInto(bookmark, lim, _domains) ==
  IF Len(_domains) >= lim THEN _domains
  ELSE IF HasUrl(bookmark)
    THEN IF Len(_domains) < lim
           THEN LET url == URLParse(bookmark.url) IN
                IF IsHttps(url) THEN SetAdd(_domains, url.hostname)
                ELSE _domains
           ELSE _domains
    ELSE IF IsFolder(bookmark)
      THEN getDomainsLoop(bookmark.children, 1, lim, _domains)
      ELSE _domains

\* for (bookmark of bookmark.children) getDomains(bookmark, limit, _domains)
getDomainsLoop(children, i, lim, _domains) ==
  IF i > Len(children) THEN _domains
  ELSE getDomainsLoop(children, i + 1, lim,
                      getDomainsInto(children[i], lim, _domains))

\* getDomains(bookmark, limit) with the default _domains = new Set();
\* Array.from(_domains) is the insertion-ordered sequence itself
getDomains(bookmark, lim) == getDomainsInto(bookmark, lim, <<>>)

\* every bookmark tree with at most n nodes, and every forest with at most n nodes
RECURSIVE NodeCount(_)
RECURSIVE ForestCount(_, _)
NodeCount(t) == IF IsFolder(t) THEN 1 + ForestCount(t.children, 1) ELSE 1
ForestCount(f, i) ==
  IF i > Len(f) THEN 0 ELSE NodeCount(f[i]) + ForestCount(f, i + 1)

RECURSIVE TreesUpTo(_)
RECURSIVE ForestsUpTo(_)
TreesUpTo(n) ==
  IF n <= 0 THEN {}
  ELSE { Leaf(u) : u \in UrlStrings } \cup { Folder(f) : f \in ForestsUpTo(n - 1) }
ForestsUpTo(n) ==
  IF n <= 0 THEN { <<>> }
  ELSE { <<>> } \cup
       UNION { { <<t>> \o f : f \in ForestsUpTo(n - NodeCount(t)) } : t \in TreesUpTo(n) }

\* the two trees the specification gives as examples
ExampleDomainsTree ==
  Folder(<< Leaf(<<"https", "a.com", "/">>), Leaf(<<"https", "a.com", "/page2">>),
            Leaf(<<"http", "b.com", "/">>), Leaf(<<"https", "c.com", "/">>) >>)
ExampleCountTree ==
  Folder(<< Folder(<< Leaf(<<"https", "a.com", "/">>), Leaf(<<"http", "b.com", "/">>) >>),
            Folder(<< Folder(<<>>),
                      Folder(<< Leaf(<<"https", "a.com", "/">>), Leaf(<<"https", "c.com", "/">>),
                                Leaf(<<"https", "d.com", "/">>), Leaf(<<"http", "b.com", "/">>),
                                Leaf(<<"https", "a.com", "/page2">>) >>) >>) >>)

TreeInputs == TreesUpTo(MaxNodes) \cup { ExampleDomainsTree, ExampleCountTree }
LimitInputs == (0..MaxLimit) \cup { 10 }

(***************************************************************************)
(* The icon tester: makeIconLoader (popup) / makeIconTester (tester).      *)
(*                                                                         *)
(* A bitmap is a row of Size pixels; pixel 0 of an image is transparent    *)
(* and 1 is opaque ink.  The canvas is created with alpha: false, so a     *)
(* cleared canvas pixel is the opaque background 0.                        *)
(***************************************************************************)
Variants == { "popup", "tester" }
Bitmaps == [1..Size -> {0, 1}]
BlankCanvas == [x \in 1..Size |-> 0]

\* context.clearRect(0, 0, canvas.width, canvas.height)
clearRectNoop(cv) == cv
clearRect(cv) == [x \in 1..Len(cv) |-> 0]

\* context.drawImage(image, dx, 0): source pixel x lands on canvas pixel x + dx;
\* pixels outside the canvas are dropped, transparent pixels leave the canvas as is
drawImage(cv, image, dx) ==
  [x \in 1..Len(cv) |->
     IF (x - dx) \in 1..Len(image) /\ image[x - dx] # 0 THEN image[x - dx] ELSE cv[x]]

\* canvas.toDataURL(): the lossless encoding of the canvas dimensions and pixels
toDataURL(cv) == [mime |-> "image/png", width |-> Len(cv), data |-> cv]

\* the dx argument of drawImage in getDataUrl
DrawOffset(v, cv) == IF v = "popup" THEN 0 ELSE Len(cv)

\* getDataUrl(image): the canvas after the call and the string returned
getDataUrl(v, cv, image) ==
  LET cleared == clearRect(cv)
      drawn == drawImage(cleared, image, DrawOffset(v, cv))
  IN [canvas |-> drawn, url |-> toDataURL(drawn)]

\* what image looks like on a canvas: its pixels from the left edge on
Rasterization(image) == toDataURL(drawImage(BlankCanvas, image, 0))

\* let missingData (popup: undefined) / let missingData = '' (tester)
MissingDataInitBlank(v) == toDataURL(BlankCanvas)
MissingDataInit(v) ==
  IF v = "popup" THEN [mime |-> "undefined"] ELSE [mime |-> "empty-string"]

\* testImage (popup) / compareImage (tester): imageData === missingData
compareImageNegated(v, cv, image, md) ==
  LET r == getDataUrl(v, cv, image)
  IN [canvas |-> r.canvas, imageData |-> r.url, verdict |-> (r.url # md)]
compareImage(v, cv, image, md) ==
  LET r == getDataUrl(v, cv, image)
  IN [canvas |-> r.canvas, imageData |-> r.url, verdict |-> (r.url = md)]

\* getIconUrl(domain): chrome.runtime.getURL('/_favicon/') with the search
\* parameters pageUrl = `https://${domain}` and size = String(size)
getIconUrl(domain) ==
  [origin |-> "chrome-extension://EXTENSION_ID", path |-> "/_favicon/",
   pageUrl |-> <<"https", domain>>, size |-> Size]

(***************************************************************************)
(* State.                                                                  *)
(***************************************************************************)
VARIABLES
  variant,        \* "popup" or "tester": the source file that runs
  placeholder,    \* the bitmap the host answers with when it has no favicon
  canvas,         \* the pixels of the tester's one offscreen canvas
  missingData,    \* the tester's missingData
  initPc,         \* init(): "idle", "loading" (awaiting loadImage) or "done"
  missingImage,   \* index in imgs of the image init() loads (0: none yet)
  imgs,           \* the image elements, in creation order
  tests,          \* the initIcon / testIcon calls, in call order
  root,           \* the bookmark tree handed to getDomains / countBookmarks
  limit,          \* the limit argument of getDomains
  ran,            \* which of the two tree functions a free caller has applied
  domains,        \* the value getDomains returned
  totalBookmarks, \* the value countBookmarks returned
  appPc,          \* the demo: "off", "start", "calibrating" or "running"
  missing,        \* the demo's missing counter
  total,          \* the demo's total counter
  doneCount,      \* how many times the demo's done() has run
  tabs,           \* the browser's tabs, indexed by tab id
  calls           \* the fetchFavIcon calls, in call order

classifierVars == <<variant, placeholder, canvas, missingData, initPc, missingImage, imgs, tests>>
treeVars == <<root, limit, ran, domains, totalBookmarks>>
appVars == <<appPc, missing, total, doneCount>>
tabVars == <<tabs, calls>>
vars == <<variant, placeholder, canvas, missingData, initPc, missingImage, imgs, tests,
          root, limit, ran, domains, totalBookmarks, appPc, missing, total, doneCount,
          tabs, calls>>

(***************************************************************************)
(* Image elements.                                                         *)
(***************************************************************************)
\* document.createElement('img') followed by img.src = url: the load starts,
\* complete is false until the load event is dispatched
NewImg(url, ttl) ==
  [src |-> url, title |-> ttl, complete |-> FALSE, loadPending |-> TRUE,
   pixels |-> BlankCanvas, listeners |-> <<>>, missingClass |-> FALSE]

\* the bitmaps the host may decode for a source: the _favicon endpoint answers
\* the empty page URL with its placeholder, any other request with the cached
\* icon or, on a cache miss, the same placeholder.  For a free caller every
\* bitmap may be in the cache; in the demo the sites share one icon, which is
\* the placeholder with its ink inverted.
SiteIcon == [x \in 1..Size |-> 1 - placeholder[x]]
HostAnswers(url) ==
  IF url = getIconUrl("") THEN { placeholder }
  ELSE IF appPc = "off" THEN Bitmaps
  ELSE { placeholder, SiteIcon }

\* loadImage(url): a new image element with the single-shot load listener
loadImage(url) == [NewImg(url, "") EXCEPT !.listeners = << [kind |-> "loadImage"] >>]

\* init() up to its await: loadImage(getIconUrl(''))
InitStart ==
  /\ initPc = "idle"
  /\ imgs' = Append(imgs, loadImage(getIconUrl("")))
  /\ missingImage' = Len(imgs) + 1
  /\ initPc' = "loading"

(***************************************************************************)
(* The handlers below run to completion on the one UI thread.  Each is     *)
(* written as an operator from the mutable state it touches (a record st)  *)
(* to that state after the handler and the promise callbacks it releases.  *)
(***************************************************************************)
Here ==
  [canvas |-> canvas, missingData |-> missingData, initPc |-> initPc, imgs |-> imgs,
   tests |-> tests, missing |-> missing, total |-> total, doneCount |-> doneCount]

Become(st) ==
  /\ canvas' = st.canvas
  /\ missingData' = st.missingData
  /\ initPc' = st.initPc
  /\ imgs' = st.imgs
  /\ tests' = st.tests
  /\ missing' = st.missing
  /\ total' = st.total
  /\ doneCount' = st.doneCount

RemoveListener(ls, l) == SelectSeq(ls, LAMBDA x : x # l)

(***************************************************************************)
(* A call of initIcon / testIcon is a record:                              *)
(*   img       the image element it was called with (index in imgs)        *)
(*   cb        who chained on its promise: "app" (the demo) or "caller"    *)
(*   resolved  the promise has resolved                                    *)
(*   verdict   the value it resolved with                                  *)
(* and, as history of the run (never read by the program):                 *)
(*   completeAtCall    image.complete at the call                          *)
(*   calibratedAtCall  init() had completed at the call                    *)
(*   calibrated        init() had completed at the call's comparison       *)
(*   imageData         the string the call's comparison read back          *)
(*   compares          how many times the call's comparison ran            *)
(***************************************************************************)
NoData == [mime |-> "none"]

\* the demo's .then(isMissing => ...) on the promise of initIcon / testIcon
thenIsMissingPostIncrement(st, k) ==
  LET t == st.tests[k]
  IN [st EXCEPT !.imgs[t.img].missingClass = IF t.verdict THEN TRUE ELSE @,
                !.missing = IF t.verdict THEN @ + 1 ELSE @,
                !.total = @ + 1,
                !.doneCount = IF st.total = Len(domains) THEN @ + 1 ELSE @]
thenIsMissing(st, k) ==
  LET t == st.tests[k]
      tt == st.total + 1
  IN [st EXCEPT !.imgs[t.img].missingClass = IF t.verdict THEN TRUE ELSE @,
                !.missing = IF t.verdict THEN @ + 1 ELSE @,
                !.total = tt,
                !.doneCount = IF tt = Len(domains) THEN @ + 1 ELSE @]

\* testImage / compareImage on the image of call k, resolving the call's promise
\* and running the callback chained on it
resolveCompareStoresData(st, k) ==
  LET t == st.tests[k]
      r == compareImage(variant, st.canvas, st.imgs[t.img].pixels, st.missingData)
      st1 == [st EXCEPT !.canvas = r.canvas,
                        !.missingData = r.imageData,
                        !.tests[k].resolved = TRUE,
                        !.tests[k].verdict = r.verdict,
                        !.tests[k].calibrated = (st.initPc = "done"),
                        !.tests[k].imageData = r.imageData,
                        !.tests[k].compares = @ + 1]
  IN IF t.resolved
       THEN [st EXCEPT !.canvas = r.canvas,
                       !.tests[k].imageData = r.imageData,
                       !.tests[k].compares = @ + 1]
     ELSE IF t.cb = "app" THEN thenIsMissing(st1, k) ELSE st1
resolveCompare(st, k) ==
  LET t == st.tests[k]
      r == compareImage(variant, st.canvas, st.imgs[t.img].pixels, st.missingData)
      st1 == [st EXCEPT !.canvas = r.canvas,
                        !.tests[k].resolved = TRUE,
                        !.tests[k].verdict = r.verdict,
                        !.tests[k].calibrated = (st.initPc = "done"),
                        !.tests[k].imageData = r.imageData,
                        !.tests[k].compares = @ + 1]
  IN IF t.resolved
       THEN [st EXCEPT !.canvas = r.canvas,
                       !.tests[k].imageData = r.imageData,
                       !.tests[k].compares = @ + 1]
     ELSE IF t.cb = "app" THEN thenIsMissing(st1, k) ELSE st1

\* image.complete decides whether the call compares at once
comparesAtOnce(v, image) == v = "tester" /\ image.complete

\* initIcon(image) (popup) / testIcon(image) (tester), called by cb
testIcon(st, i, cb) ==
  LET k == Len(st.tests) + 1
      st1 == [st EXCEPT !.tests = Append(@,
                 [img |-> i, cb |-> cb, completeAtCall |-> st.imgs[i].complete,
                  calibratedAtCall |-> (st.initPc = "done"), calibrated |-> FALSE,
                  resolved |-> FALSE, verdict |-> FALSE, imageData |-> NoData,
                  compares |-> 0])]
  IN IF comparesAtOnce(variant, st.imgs[i])
       THEN resolveCompare(st1, k)
       ELSE [st1 EXCEPT !.imgs[i].listeners = Append(@, [kind |-> "test", t |-> k])]

\* function onLoad of initIcon / testIcon: remove itself, compare, resolve
onLoadKeepListener(st, i, l) == resolveCompare(st, l.t)
onLoad(st, i, l) ==
  resolveCompare([st EXCEPT !.imgs[i].listeners = RemoveListener(@, l)], l.t)

\* dispatch of the load event of image i to the listeners registered when it fires
RECURSIVE dispatchLoad(_, _, _, _)
dispatchLoad(st, i, ls, j) ==
  IF j > Len(ls) THEN st ELSE dispatchLoad(onLoad(st, i, ls[j]), i, ls, j + 1)

\* the demo's loop body for one domain: create the image, set its src and title,
\* append it, add the click listener, start the test
RECURSIVE addIcons(_, _, _)
addIcons(st, ds, j) ==
  IF j > Len(ds) THEN st
  ELSE LET i == Len(st.imgs) + 1
           st1 == [st EXCEPT !.imgs = Append(@, NewImg(getIconUrl(ds[j]), ds[j]))]
       IN addIcons(testIcon(st1, i, "app"), ds, j + 1)

\* the load event of init()'s image: loadImage resolves, init stores missingData
\* and resolves, and the demo (when it awaits init) builds the icon grid
MissingImageLoad ==
  /\ initPc = "loading"
  /\ imgs[missingImage].loadPending
  /\ \E bm \in HostAnswers(imgs[missingImage].src) :
       LET st0 == [Here EXCEPT !.imgs[missingImage].complete = TRUE,
                               !.imgs[missingImage].loadPending = FALSE,
                               !.imgs[missingImage].pixels = bm,
                               !.imgs[missingImage].listeners = <<>>]
           r == getDataUrl(variant, st0.canvas, bm)
           st1 == [st0 EXCEPT !.canvas = r.canvas, !.missingData = r.url, !.initPc = "done"]
       IN IF appPc = "calibrating"
            THEN Become(addIcons(st1, domains, 1)) /\ appPc' = "running"
            ELSE Become(st1) /\ appPc' = appPc
  /\ UNCHANGED <<variant, placeholder, missingImage, treeVars, tabVars>>

\* the load event of any other image element
ImageLoad(i) ==
  /\ i \in 1..Len(imgs)
  /\ i # missingImage
  /\ imgs[i].loadPending
  /\ \E bm \in HostAnswers(imgs[i].src) :
       LET st0 == [Here EXCEPT !.imgs[i].complete = TRUE,
                               !.imgs[i].loadPending = FALSE,
                               !.imgs[i].pixels = bm]
       IN Become(dispatchLoad(st0, i, imgs[i].listeners, 1))
  /\ UNCHANGED <<variant, placeholder, missingImage, treeVars, appPc, tabVars>>

(***************************************************************************)
(* A free caller of the tester: it may call init once, create two images   *)
(* for any domains and call initIcon / testIcon on them at any time,       *)
(* before or after an image has loaded and before or after init has        *)
(* completed.                                                              *)
(***************************************************************************)
CallerDomains == { "", "a.com" }

CallInit ==
  /\ appPc = "off"
  /\ InitStart
  /\ UNCHANGED <<variant, placeholder, canvas, missingData, tests, treeVars, appVars, tabVars>>

CallNewImage(d) ==
  /\ appPc = "off"
  /\ Cardinality({ j \in 1..Len(imgs) : j # missingImage }) < 2
  /\ imgs' = Append(imgs, NewImg(getIconUrl(d), d))
  /\ UNCHANGED <<variant, placeholder, canvas, missingData, initPc, missingImage, tests,
                 treeVars, appVars, tabVars>>

CallTestIcon(i) ==
  /\ appPc = "off"
  /\ i \in 1..Len(imgs)
  /\ i # missingImage
  /\ Len(tests) < MaxTests
  /\ Become(testIcon(Here, i, "caller"))
  /\ UNCHANGED <<variant, placeholder, missingImage, treeVars, appPc, tabVars>>

\* the state after construction of the tester (makeIconLoader / makeIconTester),
\* with nothing called yet; variant is set first
Constructed ==
  /\ canvas = BlankCanvas
  /\ missingData = MissingDataInit(variant)
  /\ initPc = "idle"
  /\ missingImage = 0
  /\ imgs = <<>>
  /\ tests = <<>>
  /\ ran = {}
  /\ domains = <<>>
  /\ totalBookmarks = 0
  /\ missing = 0
  /\ total = 0
  /\ doneCount = 0
  /\ tabs = <<>>
  /\ calls = <<>>

InitCaller ==
  /\ variant \in Variants
  /\ placeholder \in Bitmaps
  /\ root = Folder(<<>>)
  /\ limit = 0
  /\ appPc = "off"
  /\ Constructed

NextCaller ==
  \/ CallInit
  \/ MissingImageLoad
  \/ \E d \in CallerDomains : CallNewImage(d)
  \/ \E i \in 1..Len(imgs) : CallTestIcon(i)
  \/ \E i \in 1..Len(imgs) : ImageLoad(i)

SpecCaller == InitCaller /\ [][NextCaller]_vars

(***************************************************************************)
(* A free caller of the two bookmark-tree functions: the tree and the      *)
(* limit are drawn from the bounded input sets.                            *)
(***************************************************************************)
CallGetDomains ==
  /\ appPc = "off"
  /\ "getDomains" \notin ran
  /\ domains' = getDomains(root, limit)
  /\ ran' = ran \cup { "getDomains" }
  /\ UNCHANGED <<classifierVars, root, limit, totalBookmarks, appVars, tabVars>>

CallCountBookmarks ==
  /\ appPc = "off"
  /\ "countBookmarks" \notin ran
  /\ totalBookmarks' = countBookmarks(root)
  /\ ran' = ran \cup { "countBookmarks" }
  /\ UNCHANGED <<classifierVars, root, limit, domains, appVars, tabVars>>

InitTree ==
  /\ variant \in Variants
  /\ placeholder = BlankCanvas
  /\ root \in TreeInputs
  /\ limit \in LimitInputs
  /\ appPc = "off"
  /\ Constructed

NextTree == CallGetDomains \/ CallCountBookmarks

SpecTree == InitTree /\ [][NextTree]_vars

(***************************************************************************)
(* Reference definitions the claims about the tree functions are stated    *)
(* with: they read the tree as a set of nodes, not in traversal order.     *)
(***************************************************************************)
RECURSIVE LeavesOf(_)
LeavesOf(t) ==
  IF "children" \in DOMAIN t
    THEN UNION { LeavesOf(t.children[i]) : i \in 1..Len(t.children) }
    ELSE { t }

\* the positions of the leaf nodes of t, as paths of child indexes
RECURSIVE LeafPaths(_)
LeafPaths(t) ==
  IF "children" \in DOMAIN t
    THEN UNION { { <<i>> \o p : p \in LeafPaths(t.children[i]) } : i \in 1..Len(t.children) }
    ELSE { <<>> }

\* the hostnames of the HTTPS bookmark URLs of t
HttpsHostnames(t) ==
  { b.url[2] : b \in { l \in LeavesOf(t) : "url" \in DOMAIN l /\ l.url # <<>> /\ l.url[1] = "https" } }

Min(a, b) == IF a <= b THEN a ELSE b
NoDuplicates(s) == \A i, j \in 1..Len(s) : s[i] = s[j] => i = j
Range(s) == { s[i] : i \in 1..Len(s) }

\* C8: getDomains(tree, limit) returns a duplicate-free list of hostnames of HTTPS
\* bookmark URLs of the tree whose length is min(limit, number of distinct HTTPS
\* hostnames in the tree); the specification's example gives {a.com, c.com}
GetDomainsBounds ==
  "getDomains" \in ran =>
    /\ NoDuplicates(domains)
    /\ Range(domains) \subseteq HttpsHostnames(root)
    /\ Len(domains) = Min(limit, Cardinality(HttpsHostnames(root)))
    /\ (root = ExampleDomainsTree /\ limit = 10 => Range(domains) = { "a.com", "c.com" })

\* C8 witness: a tree with more distinct HTTPS hostnames than the limit, a duplicate
\* hostname and a non-HTTPS bookmark has been collected
GetDomainsBoundsWitness ==
  /\ "getDomains" \in ran
  /\ limit = 2
  /\ Cardinality(HttpsHostnames(root)) > limit
  /\ Len(domains) = 2
  /\ \E l \in LeavesOf(root) : l.url[1] = "http"

\* C9: countBookmarks returns the number of leaf nodes of the tree (nodes without a
\* children list) at any nesting depth; folders, also empty ones, contribute 0; the
\* specification's example of folders holding 2, 0 and 5 bookmarks counts 7
CountBookmarksLeaves ==
  "countBookmarks" \in ran =>
    /\ totalBookmarks = Cardinality(LeafPaths(root))
    /\ (root = ExampleCountTree => totalBookmarks = 7)

\* C9 witness: a tree with an empty folder and nested folders has been counted
CountBookmarksLeavesWitness ==
  /\ "countBookmarks" \in ran
  /\ root = ExampleCountTree
  /\ totalBookmarks = 7

\* the URLs of the bookmarks of t in depth-first pre-order, children in listed order
RECURSIVE PreOrderUrls(_)
RECURSIVE PreOrderUrlsOf(_, _)
PreOrderUrls(t) ==
  IF "children" \in DOMAIN t THEN PreOrderUrlsOf(t.children, 1)
  ELSE IF "url" \in DOMAIN t THEN << t.url >> ELSE << >>
PreOrderUrlsOf(cs, i) ==
  IF i > Len(cs) THEN << >> ELSE PreOrderUrls(cs[i]) \o PreOrderUrlsOf(cs, i + 1)

\* the hostnames of the HTTPS URLs of a sequence of URLs, in its order
RECURSIVE HttpsHostnameSeq(_)
HttpsHostnameSeq(urls) ==
  IF urls = << >> THEN << >>
  ELSE LET u == Head(urls) IN
       (IF u # << >> /\ u[1] = "https" THEN << u[2] >> ELSE << >>) \o HttpsHostnameSeq(Tail(urls))

\* the position of the first occurrence of h in the sequence hs
FirstOccurrence(hs, h) == CHOOSE i \in 1..Len(hs) : hs[i] = h /\ \A j \in 1..(i - 1) : hs[j] # h

\* r lists, in their order, the first n hostnames of hs counted by first occurrence
IsFirstOccurrencePrefix(r, hs, n) ==
  /\ NoDuplicates(r)
  /\ Range(r) \subseteq Range(hs)
  /\ Len(r) = Min(n, Cardinality(Range(hs)))
  /\ \A i, j \in 1..Len(r) : i < j => FirstOccurrence(hs, r[i]) < FirstOccurrence(hs, r[j])
  /\ \A h \in Range(hs) : \A j \in 1..Len(r) :
       FirstOccurrence(hs, h) < FirstOccurrence(hs, r[j]) => h \in Range(r)

\* C19: getDomains(tree, limit) is the sequence of the first limit distinct HTTPS
\* hostnames of the tree in depth-first pre-order, each at its first occurrence; a
\* hostname that first occurs after the limit was reached is left out
GetDomainsPreOrderPrefix ==
  "getDomains" \in ran =>
    IsFirstOccurrencePrefix(domains, HttpsHostnameSeq(PreOrderUrls(root)), limit)

\* C19 witness: a nested tree whose pre-order is a, (b), a, c, d, (b), a was collected
\* with limit 2: the result is a, c and d is left out
GetDomainsPreOrderPrefixWitness ==
  /\ "getDomains" \in ran
  /\ root = ExampleCountTree
  /\ limit = 2
  /\ domains = << "a.com", "c.com" >>
  /\ "d.com" \in Range(HttpsHostnameSeq(PreOrderUrls(root)))

(***************************************************************************)
(* fetchFavIcon: the recovery trigger.                                     *)
(*                                                                         *)
(* A tab is [url, open]; its id is its index in tabs.  A call of           *)
(* fetchFavIcon is a record:                                               *)
(*   pc           "creating" (awaiting chrome.tabs.create), "pending" or   *)
(*                "resolved"                                               *)
(*   tab          the id chrome.tabs.create answers with                   *)
(*   listening    onUpdated is subscribed to chrome.tabs.onUpdated         *)
(*   timerPending the timeout set by setTimeout has neither fired nor been *)
(*                cleared                                                  *)
(*   outcome      the value the promise resolved with                      *)
(* and, as history of the run (never read by the program):                 *)
(*   finishCount  how many times finish ran                                *)
(*   removeCalls  how many times chrome.tabs.remove was called             *)
(*   decided      the first event since the listener and the timer were    *)
(*                set up that is either an update of the call's tab with a *)
(*                non-empty favIconUrl or the firing of the call's timer   *)
(*   closedEarly  the tab was closed by the browser before the call        *)
(*                resolved                                                 *)
(***************************************************************************)
FavIconUrls == { "", "icoA", "icoB" }

\* the template literal `https://${domain}`
TabUrl(domain) == [protocol |-> "https:", hostname |-> domain]

\* chrome.tabs.create({ url, active: false })
NewTab(url) == [url |-> url, open |-> TRUE]

There == [calls |-> calls, tabs |-> tabs, imgs |-> imgs]

\* the click handler after `await fetchFavIcon(domain)`: if (favIconUrl) { ... }
afterFetchUnchecked(st, c) ==
  LET call == st.calls[c] IN
  [st EXCEPT !.imgs[call.img].src = [href |-> call.outcome],
             !.imgs[call.img].complete = FALSE,
             !.imgs[call.img].loadPending = TRUE,
             !.imgs[call.img].missingClass = IF variant = "tester" THEN FALSE ELSE @]
afterFetch(st, c) ==
  LET call == st.calls[c] IN
  IF call.outcome # ""
    THEN [st EXCEPT !.imgs[call.img].src = [href |-> call.outcome],
                    !.imgs[call.img].complete = FALSE,
                    !.imgs[call.img].loadPending = TRUE,
                    !.imgs[call.img].missingClass = IF variant = "tester" THEN FALSE ELSE @]
    ELSE st

\* resolve(favIconUrl): a promise settles once; later calls of resolve do nothing
resolveFetch(st, c, favIconUrl) ==
  IF st.calls[c].pc = "resolved" THEN st
  ELSE LET st1 == [st EXCEPT !.calls[c].pc = "resolved", !.calls[c].outcome = favIconUrl]
       IN IF st1.calls[c].cb = "app" THEN afterFetch(st1, c) ELSE st1

\* finish(favIconUrl = ''): removeListener, tabs.remove, clearTimeout, resolve
finishKeepTimer(st, c, favIconUrl) ==
  LET id == st.calls[c].tab
      st1 == [st EXCEPT !.calls[c].listening = FALSE,
                        !.tabs[id].open = FALSE,
                        !.calls[c].removeCalls = @ + 1,
                        !.calls[c].finishCount = @ + 1]
  IN resolveFetch(st1, c, favIconUrl)
finishUnsubscribesAll(st, c, favIconUrl) ==
  LET id == st.calls[c].tab
      st1 == [st EXCEPT !.calls = [e \in 1..Len(st.calls) |->
                                     [st.calls[e] EXCEPT !.listening = FALSE]],
                        !.tabs[id].open = FALSE]
      st2 == [st1 EXCEPT !.calls[c].removeCalls = @ + 1,
                         !.calls[c].timerPending = FALSE,
                         !.calls[c].finishCount = @ + 1]
  IN resolveFetch(st2, c, favIconUrl)
finish(st, c, favIconUrl) ==
  LET id == st.calls[c].tab
      st1 == [st EXCEPT !.calls[c].listening = FALSE,
                        !.tabs[id].open = FALSE,
                        !.calls[c].removeCalls = @ + 1,
                        !.calls[c].timerPending = FALSE,
                        !.calls[c].finishCount = @ + 1]
  IN resolveFetch(st1, c, favIconUrl)

\* the condition of onUpdated: tabId === id && tab.favIconUrl
onUpdatedMatchesAnyTab(call, tabId, favIconUrl) == favIconUrl # ""
onUpdatedMatches(call, tabId, favIconUrl) == tabId = call.tab /\ favIconUrl # ""

\* onUpdated(tabId, info, tab) of call c
onUpdated(st, c, tabId, favIconUrl) ==
  IF onUpdatedMatches(st.calls[c], tabId, favIconUrl) THEN finish(st, c, favIconUrl) ELSE st

\* chrome.tabs.onUpdated dispatches one event to the listeners subscribed when it
\* fires, in subscription order
RECURSIVE dispatchUpdated(_, _, _, _)
dispatchUpdated(st, c, tabId, favIconUrl) ==
  IF c > Len(st.calls) THEN st
  ELSE dispatchUpdated(
         IF calls[c].listening /\ st.calls[c].listening
           THEN onUpdated(st, c, tabId, favIconUrl) ELSE st,
         c + 1, tabId, favIconUrl)

\* fetchFavIcon(domain) up to its await: chrome.tabs.create({ url, active: false })
fetchFavIcon(st, domain, i, cb) ==
  [st EXCEPT !.tabs = Append(@, NewTab(TabUrl(domain))),
             !.calls = Append(@,
                [domain |-> domain, img |-> i, cb |-> cb, tab |-> Len(st.tabs) + 1,
                 pc |-> "creating", listening |-> FALSE, timerPending |-> FALSE,
                 outcome |-> "", finishCount |-> 0, removeCalls |-> 0,
                 decided |-> <<>>, closedEarly |-> FALSE])]

\* const timeoutId = setTimeout(finish, timeout)
setTimeoutNever(call) == call
setTimeout(call) == [call EXCEPT !.timerPending = TRUE]

\* chrome.tabs.onUpdated.addListener(onUpdated)
addListener(call) == [call EXCEPT !.listening = TRUE]

\* fetchFavIcon after chrome.tabs.create has answered: the timer is started and the
\* listener subscribed
CreateResolved(c) ==
  /\ c \in 1..Len(calls)
  /\ calls[c].pc = "creating"
  /\ calls' = [calls EXCEPT ![c] = [addListener(setTimeout(@)) EXCEPT !.pc = "pending"]]
  /\ UNCHANGED <<classifierVars, treeVars, appVars, tabs>>

\* the history field decided, at an update of tab tabId
NoteUpdate(call, tabId, favIconUrl) ==
  IF call.pc # "creating" /\ call.decided = <<>> /\ call.tab = tabId /\ favIconUrl # ""
    THEN [call EXCEPT !.decided = << "update", favIconUrl >>]
    ELSE call

\* the browser reports an update of an open tab whose tab.favIconUrl is favIconUrl
TabUpdated(tabId, favIconUrl) ==
  /\ tabId \in 1..Len(tabs)
  /\ tabs[tabId].open
  /\ LET st0 == [There EXCEPT !.calls = [c \in 1..Len(calls) |->
                             NoteUpdate(calls[c], tabId, favIconUrl)]]
         st == dispatchUpdated(st0, 1, tabId, favIconUrl)
     IN calls' = st.calls /\ tabs' = st.tabs /\ imgs' = st.imgs
  /\ UNCHANGED <<variant, placeholder, canvas, missingData, initPc, missingImage, tests,
                 treeVars, appVars>>

\* the timer of call c fires: finish() with the default argument ''
TimerFired(c) ==
  /\ c \in 1..Len(calls)
  /\ calls[c].timerPending
  /\ LET st0 == [There EXCEPT !.calls[c].decided = IF @ = <<>> THEN << "timer" >> ELSE @,
                             !.calls[c].timerPending = FALSE]
         st == finish(st0, c, "")
     IN calls' = st.calls /\ tabs' = st.tabs /\ imgs' = st.imgs
  /\ UNCHANGED <<variant, placeholder, canvas, missingData, initPc, missingImage, tests,
                 treeVars, appVars>>

\* the user closes a tab, or the tab crashes
TabClosed(tabId) ==
  /\ tabId \in 1..Len(tabs)
  /\ tabs[tabId].open
  /\ tabs' = [tabs EXCEPT ![tabId].open = FALSE]
  /\ calls' = [c \in 1..Len(calls) |->
                 IF calls[c].tab = tabId /\ calls[c].pc # "resolved"
                   THEN [calls[c] EXCEPT !.closedEarly = TRUE] ELSE calls[c]]
  /\ UNCHANGED <<classifierVars, treeVars, appVars>>

(***************************************************************************)
(* A free caller of fetchFavIcon.                                          *)
(***************************************************************************)
CallFetchFavIcon(d) ==
  /\ appPc = "off"
  /\ Len(tabs) < MaxTabs
  /\ LET st == fetchFavIcon(There, d, 0, "caller")
     IN calls' = st.calls /\ tabs' = st.tabs
  /\ UNCHANGED <<classifierVars, treeVars, appVars>>

\* a tab some other party opens
OtherTabCreated ==
  /\ appPc = "off"
  /\ Len(tabs) < MaxTabs
  /\ tabs' = Append(tabs, NewTab(TabUrl("other.org")))
  /\ UNCHANGED <<classifierVars, treeVars, appVars, calls>>

InitRecover ==
  /\ variant \in Variants
  /\ placeholder = BlankCanvas
  /\ root = Folder(<<>>)
  /\ limit = 0
  /\ appPc = "off"
  /\ Constructed

NextRecover ==
  \/ \E d \in { "a.com", "c.com" } : CallFetchFavIcon(d)
  \/ OtherTabCreated
  \/ \E c \in 1..Len(calls) : CreateResolved(c)
  \/ \E t \in 1..Len(tabs) : \E u \in FavIconUrls : TabUpdated(t, u)
  \/ \E c \in 1..Len(calls) : TimerFired(c)
  \/ \E t \in 1..Len(tabs) : TabClosed(t)

SpecRecover == InitRecover /\ [][NextRecover]_vars

\* the timer of a call fires unless it is cleared, and chrome.tabs.create answers
FairRecover ==
  /\ SpecRecover
  /\ \A c \in 1..MaxTabs : WF_vars(TimerFired(c)) /\ WF_vars(CreateResolved(c))

Resolved(c) == c \in 1..Len(calls) /\ calls[c].pc = "resolved"

\* C1: a fetchFavIcon call resolves with the favIconUrl of the first update of its own
\* tab that carries a non-empty favIconUrl, if one is delivered before its timer
\* fires, and with the empty string if the timer fires first; the first of the two
\* decides the outcome for good
FirstEventDecidesOutcome ==
  \A c \in 1..Len(calls) :
    /\ calls[c].pc = "resolved" =>
         \/ calls[c].outcome # "" /\ calls[c].decided = << "update", calls[c].outcome >>
         \/ calls[c].outcome = "" /\ calls[c].decided = << "timer" >>
    /\ calls[c].pc # "resolved" => calls[c].decided = <<>>

\* C1 witness: one call resolved by an update of its tab, and one call resolved by
\* its timer
FirstEventDecidesOutcomeWitness ==
  \E c, e \in 1..Len(calls) :
    /\ calls[c].pc = "resolved" /\ calls[c].outcome = "icoB"
    /\ calls[e].pc = "resolved" /\ calls[e].outcome = ""

\* C2: the teardown of a fetchFavIcon call (finish) runs at most once, and exactly
\* once for a call that has resolved: its tab was removed once, its listener is not
\* subscribed and its timer is not pending
TeardownExactlyOnce ==
  \A c \in 1..Len(calls) :
    /\ calls[c].finishCount <= 1
    /\ calls[c].removeCalls = calls[c].finishCount
    /\ (calls[c].pc = "resolved") = (calls[c].finishCount = 1)
    /\ calls[c].pc = "resolved" =>
         /\ ~calls[c].listening
         /\ ~calls[c].timerPending
         /\ ~tabs[calls[c].tab].open

\* C2 witness: a call torn down on the success path, one on the timeout path
TeardownExactlyOnceWitness ==
  \E c, e \in 1..Len(calls) :
    /\ calls[c].pc = "resolved" /\ calls[c].decided[1] = "update" /\ calls[c].finishCount = 1
    /\ calls[e].pc = "resolved" /\ calls[e].decided[1] = "timer" /\ calls[e].finishCount = 1

\* C6: every fetchFavIcon call eventually resolves; a call whose tab was closed before
\* it resolved resolves only when its timer fires, with the empty string, and its
\* teardown runs then
ResolvesByTimeoutAtLatest ==
  /\ \A c \in 1..MaxTabs : (c \in 1..Len(calls)) ~> Resolved(c)
  /\ [](\A c \in 1..Len(calls) :
          calls[c].closedEarly /\ calls[c].pc = "resolved" =>
            /\ calls[c].outcome = ""
            /\ calls[c].decided = << "timer" >>
            /\ calls[c].finishCount = 1
            /\ ~calls[c].listening)

\* C6 witness: a call whose tab was closed early has resolved
ResolvesByTimeoutAtLatestWitness ==
  \E c \in 1..Len(calls) :
    calls[c].closedEarly /\ calls[c].pc = "resolved" /\ calls[c].finishCount = 1

\* call c resolves in this step
Resolves(c) == calls[c].pc # "resolved" /\ calls'[c].pc = "resolved"

\* an update resolves a call only if it is an update of the call's own tab with a
\* non-empty favIconUrl, and then with that favIconUrl
UpdateResolvesOwnCall ==
  \A t \in 1..Len(tabs) : \A u \in FavIconUrls :
    TabUpdated(t, u) =>
      \A c \in 1..Len(calls) :
        Resolves(c) => t = calls[c].tab /\ u # "" /\ calls'[c].outcome = u

\* the step in which a call resolves leaves every other call, with its listener and
\* its timer, and every other call's tab as they were
FinishTouchesOwnCall ==
  \A c, e \in 1..Len(calls) :
    c # e /\ Resolves(c) =>
      /\ calls'[e] = calls[e]
      /\ tabs'[calls[e].tab] = tabs[calls[e].tab]

\* C15: a fetchFavIcon call takes its success path only for an update of the tab it
\* created that carries a non-empty favIconUrl; and when one of several calls in
\* flight finishes, the listeners, timers and tabs of the others stay as they are
RecoveriesIsolated == [][UpdateResolvesOwnCall /\ FinishTouchesOwnCall]_vars

\* C15 witness: of two calls for the same domain one has resolved with the favIconUrl
\* of its tab while the other still listens, with its timer pending and its tab open
RecoveriesIsolatedWitness ==
  \E c, e \in 1..Len(calls) :
    /\ c # e
    /\ calls[c].domain = calls[e].domain
    /\ calls[c].pc = "resolved" /\ calls[c].outcome = "icoA"
    /\ calls[e].pc = "pending" /\ calls[e].listening /\ calls[e].timerPending
    /\ tabs[calls[e].tab].open

(***************************************************************************)
(* The demo: the chrome.bookmarks.getTree callback and the click handler.  *)
(***************************************************************************)
DemoLimit == 2000

DemoTrees ==
  { ExampleDomainsTree,
    Folder(<< Folder(<< Leaf(<<"https", "a.com", "/">>) >>), Leaf(<<"http", "b.com", "/">>) >>),
    Folder(<< Leaf(<<"http", "b.com", "/">>) >>) }

\* the callback up to `await init()`: getDomains(root, 2_000), countBookmarks(root)
\* and init() up to its own await
GetTreeCallbackNoAwait ==
  /\ appPc = "start"
  /\ domains' = getDomains(root, limit)
  /\ totalBookmarks' = countBookmarks(root)
  /\ missingImage' = Len(imgs) + 1
  /\ Become(addIcons([Here EXCEPT !.imgs = Append(@, loadImage(getIconUrl(""))),
                                  !.initPc = "loading"],
                     getDomains(root, limit), 1))
  /\ appPc' = "running"
  /\ UNCHANGED <<variant, placeholder, root, limit, ran, tabVars>>
GetTreeCallback ==
  /\ appPc = "start"
  /\ domains' = getDomains(root, limit)
  /\ totalBookmarks' = countBookmarks(root)
  /\ InitStart
  /\ appPc' = "calibrating"
  /\ UNCHANGED <<variant, placeholder, canvas, missingData, tests, root, limit, ran,
                 missing, total, doneCount, tabVars>>

\* the condition under which a plain click starts fetchFavIcon: always (popup),
\* img.classList.contains('missing') (tester)
recoverOnClickAlways(v, image) == TRUE
recoverOnClick(v, image) == v = "popup" \/ image.missingClass

\* the click listener of icon i; modifier is event.ctrlKey || event.metaKey
ClickRecoversToo(i, modifier) ==
  /\ appPc = "running"
  /\ i \in 1..Len(imgs)
  /\ i # missingImage
  /\ IF modifier \/ recoverOnClick(variant, imgs[i])
       THEN /\ Len(tabs) < MaxTabs
            /\ LET st == fetchFavIcon(There, imgs[i].title, i, "app")
               IN calls' = st.calls /\ tabs' = st.tabs
       ELSE UNCHANGED <<tabs, calls>>
  /\ UNCHANGED <<classifierVars, treeVars, appPc, missing, total, doneCount>>
Click(i, modifier) ==
  /\ appPc = "running"
  /\ i \in 1..Len(imgs)
  /\ i # missingImage
  /\ IF modifier
       THEN /\ Len(tabs) < MaxTabs
            /\ tabs' = Append(tabs, NewTab(TabUrl(imgs[i].title)))
            /\ calls' = calls
       ELSE IF recoverOnClick(variant, imgs[i])
         THEN /\ Len(tabs) < MaxTabs
              /\ LET st == fetchFavIcon(There, imgs[i].title, i, "app")
                 IN calls' = st.calls /\ tabs' = st.tabs
         ELSE UNCHANGED <<tabs, calls>>
  /\ UNCHANGED <<classifierVars, treeVars, appPc, missing, total, doneCount>>

\* the placeholder of the demo's host: ink on the first pixel only
DemoPlaceholder == [x \in 1..Size |-> IF x = 1 THEN 1 ELSE 0]

Init ==
  /\ variant \in Variants
  /\ placeholder = DemoPlaceholder
  /\ root \in DemoTrees
  /\ limit = DemoLimit
  /\ appPc = "start"
  /\ Constructed

Next ==
  \/ GetTreeCallback
  \/ MissingImageLoad
  \/ \E i \in 1..Len(imgs) : ImageLoad(i)
  \/ \E i \in 1..Len(imgs) : \E modifier \in BOOLEAN : Click(i, modifier)
  \/ \E c \in 1..Len(calls) : CreateResolved(c)
  \/ \E t \in 1..Len(tabs) : \E u \in FavIconUrls : TabUpdated(t, u)
  \/ \E c \in 1..Len(calls) : TimerFired(c)
  \/ \E t \in 1..Len(tabs) : TabClosed(t)

Spec == Init /\ [][Next]_vars

IsIcon(i) == i \in 1..Len(imgs) /\ i # missingImage /\ appPc = "running"

\* a plain click on icon i is handled and starts fetchFavIcon for the icon's domain
PlainClickStartsRecovery(i) ==
  /\ Click(i, FALSE)
  /\ Len(calls') = Len(calls) + 1
  /\ calls'[Len(calls')].domain = imgs[i].title
  /\ calls'[Len(calls')].img = i

\* a step in which the demo's call c resolves swaps the icon's src for the outcome if
\* the outcome is not empty and leaves the src alone if it is
ResolutionSwapsSrc ==
  \A c \in 1..Len(calls) :
    calls[c].cb = "app" /\ calls[c].pc # "resolved" /\ calls'[c].pc = "resolved" =>
      IF calls'[c].outcome # ""
        THEN imgs'[calls[c].img].src = [href |-> calls'[c].outcome]
        ELSE imgs'[calls[c].img].src = imgs[calls[c].img].src

\* a step that starts a call of the demo does so for an icon a plain click recovers
StartedByPlainClick ==
  Len(calls') > Len(calls) =>
    LET call == calls'[Len(calls')] IN
      /\ IsIcon(call.img)
      /\ call.domain = imgs[call.img].title
      /\ variant = "tester" => imgs[call.img].missingClass

\* C10 as stated: a plain click on any icon of the grid starts fetchFavIcon for the
\* icon's domain, and when the recovery resolves the icon's src is replaced by the
\* discovered URL if and only if the outcome is not empty
PlainClickOnAnyIconRecovers ==
  /\ [](\A i \in 1..Len(imgs) :
          IsIcon(i) /\ Len(tabs) < MaxTabs => ENABLED PlainClickStartsRecovery(i))
  /\ [][ResolutionSwapsSrc]_vars

\* C10 as amended: a plain click on an icon starts fetchFavIcon for the icon's domain,
\* in popup.js for any icon and in the tester demo exactly for the icons that carry
\* the missing marker; when the recovery resolves the icon's src is replaced by the
\* discovered URL if and only if the outcome is not empty
PlainClickRecovers ==
  /\ [](\A i \in 1..Len(imgs) :
          IsIcon(i) /\ Len(tabs) < MaxTabs =>
            ((variant = "popup" \/ imgs[i].missingClass) <=> ENABLED PlainClickStartsRecovery(i)))
  /\ [][ResolutionSwapsSrc /\ StartedByPlainClick]_vars

\* C10 witness: in the tester demo a recovery has swapped in the discovered icon, and
\* another icon without the missing marker can be clicked
PlainClickRecoversWitness ==
  /\ variant = "tester"
  /\ Len(tabs) < MaxTabs
  /\ \E c \in 1..Len(calls) :
       /\ calls[c].pc = "resolved"
       /\ calls[c].outcome = "icoA"
       /\ imgs[calls[c].img].src = [href |-> "icoA"]
  /\ \E i \in 1..Len(imgs) : IsIcon(i) /\ ~imgs[i].missingClass /\ imgs[i].complete

\* a step in which a call of the demo resolves with the empty outcome leaves the
\* icon element it was started for as it was
EmptyOutcomeLeavesIcon ==
  \A c \in 1..Len(calls) :
    /\ calls[c].cb = "app"
    /\ calls[c].pc # "resolved"
    /\ calls'[c].pc = "resolved"
    /\ calls'[c].outcome = ""
    => imgs'[calls[c].img] = imgs[calls[c].img]

\* a step in which the timer of a pending call fires resolves the call with the
\* empty string
TimeoutResolvesEmpty ==
  \A c \in 1..Len(calls) :
    calls[c].timerPending /\ TimerFired(c) =>
      calls'[c].pc = "resolved" /\ calls'[c].outcome = ""

\* the recoveries of icon i that have failed
FailedRecoveries(i) ==
  { c \in 1..Len(calls) : calls[c].img = i /\ calls[c].pc = "resolved" /\ calls[c].outcome = "" }

\* C11: a recovery that times out resolves with the empty string; the demo then
\* leaves the icon's src and missing marker as they were; and whatever recoveries of
\* a missing icon have failed, a plain click on it starts a new one
FailedRecoveryLeavesIcon ==
  /\ [][TimeoutResolvesEmpty /\ EmptyOutcomeLeavesIcon]_vars
  /\ [](\A i \in 1..Len(imgs) :
          IsIcon(i) /\ imgs[i].missingClass /\ Len(tabs) < MaxTabs =>
            ENABLED PlainClickStartsRecovery(i))

\* C11 witness: a recovery of a missing icon has timed out, the icon still has the
\* src it was created with and its missing marker, and a click can start another
FailedRecoveryLeavesIconWitness ==
  \E i \in 1..Len(imgs) :
    /\ IsIcon(i)
    /\ imgs[i].missingClass
    /\ imgs[i].src = getIconUrl(imgs[i].title)
    /\ \E c \in FailedRecoveries(i) : calls[c].decided = << "timer" >>
    /\ Len(tabs) < MaxTabs

\* a modifier-click on icon i is handled and opens the icon's domain in a new tab
ModifierClickOpensDomain(i) ==
  /\ Click(i, TRUE)
  /\ tabs' = Append(tabs, [url |-> TabUrl(imgs[i].title), open |-> TRUE])

\* what a modifier-click leaves alone: the recoveries, the tester and its tests, the
\* icon elements and the counters
ModifierClickFrame ==
  \A i \in 1..Len(imgs) :
    Click(i, TRUE) =>
      /\ Len(tabs') = Len(tabs) + 1
      /\ tabs'[Len(tabs')] = [url |-> TabUrl(imgs[i].title), open |-> TRUE]
      /\ \A t \in 1..Len(tabs) : tabs'[t] = tabs[t]
      /\ calls' = calls
      /\ tests' = tests
      /\ canvas' = canvas
      /\ missingData' = missingData
      /\ imgs' = imgs
      /\ missing' = missing
      /\ total' = total
      /\ doneCount' = doneCount

\* C12: a modifier-click on an icon opens the icon's domain in a new tab and does
\* nothing else: no fetchFavIcon call starts (no listener, no timer), no comparison
\* runs, and the icon's src, its missing marker and the counters stay as they are
ModifierClickOnlyOpensTab ==
  /\ [][ModifierClickFrame]_vars
  /\ [](\A i \in 1..Len(imgs) :
          IsIcon(i) /\ Len(tabs) < MaxTabs => ENABLED ModifierClickOpensDomain(i))

\* C12 witness: a tab for the domain of a missing icon is open that no fetchFavIcon
\* call created, and no call was ever started
ModifierClickOnlyOpensTabWitness ==
  /\ calls = <<>>
  /\ total = Len(domains)
  /\ \E i \in 1..Len(imgs) :
       /\ IsIcon(i)
       /\ imgs[i].missingClass
       /\ \E t \in 1..Len(tabs) : tabs[t] = [url |-> TabUrl(imgs[i].title), open |-> TRUE]

\* the load listener that call k registered is still on its image
Registered(k) ==
  \E j \in 1..Len(imgs[tests[k].img].listeners) :
    imgs[tests[k].img].listeners[j] = [kind |-> "test", t |-> k]

\* a load event of an icon whose calls have all compared runs no comparison and
\* leaves the tests, the canvas, the counters and the icon's missing marker alone
LaterLoadIsInert ==
  \A i \in 1..Len(imgs) :
    /\ IsIcon(i)
    /\ imgs[i].loadPending /\ ~imgs'[i].loadPending
    /\ \A k \in 1..Len(tests) : tests[k].img = i => tests[k].compares > 0
    => /\ tests' = tests
       /\ canvas' = canvas
       /\ missing' = missing /\ total' = total /\ doneCount' = doneCount
       /\ imgs'[i].missingClass = imgs[i].missingClass
       /\ imgs'[i].listeners = <<>>

\* C14: the comparison of a call of initIcon / testIcon runs at most once and its load
\* listener is gone once it has fired, so a later load event of the same image (after
\* a recovery has replaced its src) compares nothing and changes neither the counters
\* nor the missing marker
LoadListenerSingleShot ==
  /\ [](\A k \in 1..Len(tests) :
          /\ tests[k].compares <= 1
          /\ tests[k].compares = 1 => ~Registered(k))
  /\ [][LaterLoadIsInert]_vars

\* C14 witness: an icon was classified as missing, a recovery replaced its src, and
\* the new source has loaded
LoadListenerSingleShotWitness ==
  \E k \in 1..Len(tests) :
    LET image == imgs[tests[k].img] IN
      /\ tests[k].compares = 1
      /\ tests[k].verdict
      /\ image.src = [href |-> "icoA"]
      /\ image.complete
      /\ image.pixels # placeholder
      /\ missing = 1

\* init() moves forward only: it is started once, and it completes in the step in
\* which the load event of its image is delivered
InitRunsOnce ==
  /\ initPc' # initPc =>
       \/ initPc = "idle" /\ initPc' = "loading" /\ Len(imgs') = Len(imgs) + 1
       \/ /\ initPc = "loading" /\ initPc' = "done"
          /\ imgs[missingImage].loadPending /\ ~imgs'[missingImage].loadPending
  /\ missingData' # missingData => initPc = "loading" /\ initPc' = "done"

\* C16: the demo calls init once and awaits it: until init has completed there is no
\* icon element and no call of initIcon / testIcon, every comparison is made after
\* missingData was stored, and init completes only in the step that delivers the load
\* event of its image, so that without this event nothing is ever classified
InitAwaitedBeforeIcons ==
  /\ []((appPc # "start") = (initPc # "idle"))
  /\ [](initPc # "done" =>
          /\ tests = <<>>
          /\ \A i \in 1..Len(imgs) : i = missingImage
          /\ missingData = MissingDataInit(variant)
          /\ total = 0 /\ missing = 0)
  /\ [](\A k \in 1..Len(tests) :
          /\ tests[k].calibratedAtCall
          /\ tests[k].compares > 0 => tests[k].calibrated)
  /\ [][InitRunsOnce]_vars

\* C16 witness: init has completed and both icons of the grid have been compared,
\* one with the verdict true
InitAwaitedBeforeIconsWitness ==
  /\ initPc = "done"
  /\ Len(tests) = 2
  /\ \A k \in 1..Len(tests) : tests[k].compares = 1 /\ tests[k].calibrated
  /\ \E k \in 1..Len(tests) : tests[k].verdict

\* C18: missingData is written by init only: once init has completed it is the data
\* URL init read back for its image, and no later step of the demo (a comparison, a
\* click, a recovery, a load of a swapped-in source) changes it
MissingDataWrittenByInit ==
  /\ [](initPc = "done" =>
          missingData = getDataUrl(variant, BlankCanvas, imgs[missingImage].pixels).url)
  /\ [][initPc = "done" => missingData' = missingData]_vars

\* C18 witness: after init completed an icon was compared and recovered, and
\* missingData is the rasterization of the placeholder
MissingDataWrittenByInitWitness ==
  /\ variant = "popup"
  /\ initPc = "done"
  /\ missingData = Rasterization(placeholder)
  /\ \E k \in 1..Len(tests) :
       /\ tests[k].compares = 1
       /\ imgs[tests[k].img].pixels # placeholder
       /\ imgs[tests[k].img].src = [href |-> "icoB"]

\* the calls of initIcon / testIcon whose verdict has arrived
Arrived == { k \in 1..Len(tests) : tests[k].resolved }

\* done() runs in exactly the steps in which a verdict arrives and total reaches the
\* number of domains
DoneAtLastVerdict ==
  /\ doneCount' \in { doneCount, doneCount + 1 }
  /\ doneCount' = doneCount + 1 <=> (total' = total + 1 /\ total' = Len(domains))
  /\ total' \in { total, total + 1 }

\* C20: in the demo 0 <= missing <= total <= number of domains; there is one call per
\* domain and total counts the calls whose verdict has arrived, each once; missing
\* counts the true verdicts among them; done() runs at most once, in the step in
\* which the last outstanding verdict arrives, and not while a verdict is outstanding
CountersAndSummary ==
  /\ [](/\ 0 <= missing /\ missing <= total /\ total <= Len(domains)
        /\ appPc = "running" =>
             /\ Len(tests) = Len(domains)
             /\ \A k \in 1..Len(tests) : imgs[tests[k].img].title = domains[k]
        /\ total = Cardinality(Arrived)
        /\ missing = Cardinality({ k \in Arrived : tests[k].verdict })
        /\ doneCount <= 1
        /\ doneCount = 1 <=> (appPc = "running" /\ Arrived = 1..Len(domains) /\ domains # << >>))
  /\ [][DoneAtLastVerdict]_vars

\* C20 witness: the verdicts of both domains have arrived, one of them true, and
\* done() has run
CountersAndSummaryWitness ==
  /\ Len(domains) = 2
  /\ total = 2
  /\ missing = 1
  /\ doneCount = 1

(***************************************************************************)
(* Claims about the tester under a free caller.                            *)
(***************************************************************************)
\* C13: whatever the order of the load events of the images under test and of
\* init's image, the string a call's comparison reads back is the rasterization of
\* the call's own image
SampleIsOwnImage ==
  \A k \in 1..Len(tests) :
    tests[k].compares > 0 =>
      tests[k].imageData = Rasterization(imgs[tests[k].img].pixels)

\* C3: a classify call made on a calibrated tester has resolved with a verdict as soon
\* as its image is loaded: at once, without a load event, when the image was already
\* loaded at the call, and at the load event otherwise
ClassifyResolvesOnceLoaded ==
  \A k \in 1..Len(tests) :
    tests[k].calibratedAtCall =>
      /\ tests[k].resolved = imgs[tests[k].img].complete
      /\ tests[k].resolved => tests[k].compares = 1

\* C4: after calibration the verdict is false for every icon whose pixels differ from
\* the placeholder's
DifferentPixelsNotMissing ==
  \A k \in 1..Len(tests) :
    tests[k].resolved /\ tests[k].calibrated /\ imgs[tests[k].img].pixels # placeholder
      => tests[k].verdict = FALSE

\* C5: after init has completed, the verdict for an image the host answered with the
\* placeholder bitmap is true
PlaceholderIsMissing ==
  \A k \in 1..Len(tests) :
    tests[k].resolved /\ tests[k].calibrated /\ imgs[tests[k].img].pixels = placeholder
      => tests[k].verdict = TRUE

\* C5 witness: popup.js has classified the image of the empty-domain request against
\* a placeholder that has ink
PlaceholderIsMissingWitness ==
  /\ variant = "popup"
  /\ placeholder # BlankCanvas
  /\ \E k \in 1..Len(tests) :
       /\ tests[k].resolved /\ tests[k].calibrated /\ tests[k].verdict
       /\ imgs[tests[k].img].src = getIconUrl("")

\* C7: two classify calls on the same already-loaded image, made on a calibrated
\* tester, both yield a verdict and the two verdicts are equal
ClassifyTwiceAgrees ==
  \A k, m \in 1..Len(tests) :
    /\ k < m
    /\ tests[k].img = tests[m].img
    /\ tests[k].completeAtCall /\ tests[m].completeAtCall
    /\ tests[k].calibratedAtCall /\ tests[m].calibratedAtCall
    => /\ tests[k].resolved /\ tests[m].resolved
       /\ tests[k].verdict = tests[m].verdict

\* the value of missingData at the comparison of call k
MissingDataAt(k) == IF tests[k].calibrated THEN missingData ELSE MissingDataInit(variant)

\* C17: the verdict of a call is the one the comparison gives on a canvas nothing was
\* drawn on before: it is decided by the pixels of the call's image and by missingData
\* alone, whatever images were drawn on the canvas by init and by earlier calls
VerdictIgnoresCanvasHistory ==
  \A k \in 1..Len(tests) :
    tests[k].resolved =>
      tests[k].verdict =
        compareImage(variant, BlankCanvas, imgs[tests[k].img].pixels, MissingDataAt(k)).verdict

\* C17 witness: popup.js has compared, after init, two images with ink on different
\* pixels, one of them the placeholder, with the verdicts true and false
VerdictIgnoresCanvasHistoryWitness ==
  /\ variant = "popup"
  /\ \E k, m \in 1..Len(tests) :
       /\ tests[k].resolved /\ tests[k].calibrated /\ tests[k].verdict
       /\ tests[m].resolved /\ tests[m].calibrated /\ ~tests[m].verdict
       /\ \E x, y \in 1..Size :
            /\ imgs[tests[k].img].pixels[x] = 1 /\ imgs[tests[m].img].pixels[x] = 0
            /\ imgs[tests[k].img].pixels[y] = 0 /\ imgs[tests[m].img].pixels[y] = 1

\* C21 as stated: a call of initIcon / testIcon made before init has completed
\* resolves with the verdict false, whatever its image
UncalibratedCallNotMissing ==
  \A k \in 1..Len(tests) :
    ~tests[k].calibratedAtCall /\ tests[k].resolved => tests[k].verdict = FALSE

\* C21 as amended: a call whose comparison runs before init has completed resolves,
\* with the verdict false, whatever its image; a call made before init has completed
\* whose image loads after it is compared with the stored missingData like any other
UncalibratedCompareNotMissing ==
  \A k \in 1..Len(tests) :
    /\ tests[k].compares > 0 => tests[k].resolved
    /\ tests[k].resolved /\ ~tests[k].calibrated =>
         /\ ~tests[k].calibratedAtCall
         /\ tests[k].verdict = FALSE
    /\ tests[k].resolved /\ tests[k].calibrated =>
         tests[k].verdict = (tests[k].imageData = missingData)

\* C21 witness: the image of the empty-domain request, answered with the placeholder,
\* was compared before init was called, and another call made before init had completed
\* was compared after it
UncalibratedCompareNotMissingWitness ==
  \E k, m \in 1..Len(tests) :
    /\ tests[k].resolved /\ ~tests[k].calibrated /\ ~tests[k].verdict
    /\ imgs[tests[k].img].src = getIconUrl("")
    /\ imgs[tests[k].img].pixels = placeholder
    /\ tests[m].resolved /\ ~tests[m].calibratedAtCall /\ tests[m].calibrated

====
